---------------------------- MODULE Spec2Model ----------------------------
(***************************************************************************)
(* Model of src/bot.py: the per-user dialog of the meme bot (the handlers  *)
(* registered on the ConversationHandler in main), the three content       *)
(* operations they call, and the supervising loop of main.                 *)
(*                                                                         *)
(* Strings the program computes on (button payloads, texts, URLs, the      *)
(* result of generate_custom_meme) are sequences of one-character strings, *)
(* so that slicing, lower(), startswith() and endswith() are computed.     *)
(* An optional value (a dict key that may be missing, a None result) is a  *)
(* sequence of length 0 (missing) or 1 (present).                          *)
(***************************************************************************)
EXTENDS Naturals, Sequences, FiniteSets, TLC

(***************************************************************************)
(* Bounds of the model.                                                    *)
(***************************************************************************)
\* length of the long free-text input (longer than the 50-character cut)
MaxTextLen == 52
\* largest number of posts in one listing returned by a content source
MaxListing == 2
MaxInbox == 2

(***************************************************************************)
(* String helpers.                                                         *)
(***************************************************************************)
UpperToLower ==
    ("A" :> "a") @@ ("B" :> "b") @@ ("C" :> "c") @@ ("D" :> "d") @@
    ("E" :> "e") @@ ("F" :> "f") @@ ("G" :> "g") @@ ("H" :> "h") @@
    ("I" :> "i") @@ ("J" :> "j") @@ ("K" :> "k") @@ ("L" :> "l") @@
    ("M" :> "m") @@ ("N" :> "n") @@ ("O" :> "o") @@ ("P" :> "p") @@
    ("Q" :> "q") @@ ("R" :> "r") @@ ("S" :> "s") @@ ("T" :> "t") @@
    ("U" :> "u") @@ ("V" :> "v") @@ ("W" :> "w") @@ ("X" :> "x") @@
    ("Y" :> "y") @@ ("Z" :> "z")

\* str.lower()
Lower(s) ==
    [i \in 1..Len(s) |->
        IF s[i] \in DOMAIN UpperToLower THEN UpperToLower[s[i]] ELSE s[i]]

\* str.startswith(p)
StartsWith(s, p) ==
    /\ Len(s) >= Len(p)
    /\ SubSeq(s, 1, Len(p)) = p

\* str.endswith(p)
EndsWith(s, p) ==
    /\ Len(s) >= Len(p)
    /\ SubSeq(s, Len(s) - Len(p) + 1, Len(s)) = p

\* s[:n] cut one character short
Prefix_short(s, n) == IF Len(s) <= n THEN s ELSE SubSeq(s, 1, n - 1)

\* s[:n]
Prefix(s, n) == IF Len(s) <= n THEN s ELSE SubSeq(s, 1, n)

(***************************************************************************)
(* Button payloads: the three mode tokens and the catalog's categories.    *)
(***************************************************************************)
EDIT == <<"e","d","i","t">>
RANDOM == <<"r","a","n","d","o","m">>
VIDEO == <<"v","i","d","e","o">>

DARK_HUMOR == <<"d","a","r","k"," ","h","u","m","o","r">>
WHOLESOME == <<"w","h","o","l","e","s","o","m","e">>
SARCASTIC == <<"s","a","r","c","a","s","t","i","c">>
NERDY == <<"n","e","r","d","y">>
TRENDING == <<"t","r","e","n","d","i","n","g">>
ABSURD == <<"a","b","s","u","r","d">>
DISTRACTED == <<"d","i","s","t","r","a","c","t","e","d">>
DRAKE == <<"d","r","a","k","e">>
GRU == <<"g","r","u">>
CHANGE_MY_MIND == <<"c","h","a","n","g","e"," ","m","y"," ","m","i","n","d">>
\* a payload that is neither a mode token nor a catalog category
BOGUS == <<"b","o","g","u","s">>

\* MEME_TEMPLATES: category -> template id
MEME_TEMPLATES ==
    (DARK_HUMOR :> "181913649") @@ (WHOLESOME :> "8072285") @@
    (SARCASTIC :> "61579") @@ (NERDY :> "61532") @@
    (TRENDING :> "93895088") @@ (ABSURD :> "222403160") @@
    (DISTRACTED :> "112126428") @@ (DRAKE :> "181913649") @@
    (GRU :> "124822590") @@ (CHANGE_MY_MIND :> "129242436")

\* list(MEME_TEMPLATES.keys()), in insertion order
ALL_CATEGORIES ==
    << DARK_HUMOR, WHOLESOME, SARCASTIC, NERDY, TRENDING, ABSURD,
       DISTRACTED, DRAKE, GRU, CHANGE_MY_MIND >>

VIDEO_CATEGORIES == << DARK_HUMOR, DISTRACTED >>

\* subreddit_map of fetch_reddit_video
subreddit_map ==
    (DARK_HUMOR :> << "dankvideos", "DarkHumorAndMemes" >>) @@
    (DISTRACTED :> << "DistractedVideos", "FunnyVideos" >>)

\* subreddit_map.get(category, [])
SubredditsOf(category) ==
    IF category \in DOMAIN subreddit_map THEN subreddit_map[category] ELSE << >>

Range(s) == { s[i] : i \in 1..Len(s) }


\* an optional value: << >> is None / a missing key, << v >> is v
None == << >>
Some(v) == << v >>

\* random.choice(seq), the draw being the input pick
Choice(seq, pick) == seq[((pick - 1) % Len(seq)) + 1]

(***************************************************************************)
(* generate_custom_meme: the captioning request.                           *)
(***************************************************************************)
HTTP == << "h","t","t","p" >>
INVALID_CATEGORY ==
    << "I","n","v","a","l","i","d"," ","c","a","t","e",
       "g","o","r","y"," ","s","e","l","e","c","t","e",
       "d" >>
API_ERROR_PREFIX ==
    << "A","P","I"," ","E","r","r","o","r",":"," " >>
UNKNOWN_ERROR ==
    << "U","n","k","n","o","w","n"," ","e","r","r","o",
       "r" >>
FAILED_TO_CREATE ==
    << "F","a","i","l","e","d"," ","t","o"," ","c","r",
       "e","a","t","e"," ","m","e","m","e","."," ","P",
       "l","e","a","s","e"," ","t","r","y"," ","a","g",
       "a","i","n"," ","l","a","t","e","r","." >>

\* What the captioning service can answer to one request.
\*   transport : requests.post raises (timeout, connection error)
\*   http_error: an error status, raise_for_status raises
\*   malformed : the body is not JSON, or lacks data.url though success is set
\*   success   : status 2xx, success true, data.url = url
\*   failure   : status 2xx, success false, error_message = msg when has_msg
CaptionResponse(kind, url, has_msg, msg) ==
    [kind |-> kind, url |-> url, has_msg |-> has_msg, msg |-> msg]

\* the request that never happened
NoCaptionResponse == CaptionResponse("none", << >>, FALSE, << >>)

\* CaptionOutcome with the service's error message dropped
CaptionOutcome_generic(resp) ==
    IF resp.kind = "success" THEN resp.url ELSE FAILED_TO_CREATE

\* lines 84-89: the string made of the service's answer
CaptionOutcome(resp) ==
    CASE resp.kind = "success" -> resp.url
      [] resp.kind = "failure" ->
            API_ERROR_PREFIX \o (IF resp.has_msg THEN resp.msg ELSE UNKNOWN_ERROR)
      [] OTHER -> FAILED_TO_CREATE

\* TemplateOf looking the category up as it is written
TemplateOf_exact(category) ==
    IF category \in DOMAIN MEME_TEMPLATES
    THEN Some(MEME_TEMPLATES[category])
    ELSE None

\* MEME_TEMPLATES.get(category.lower())
TemplateOf(category) ==
    IF Lower(category) \in DOMAIN MEME_TEMPLATES
    THEN Some(MEME_TEMPLATES[Lower(category)])
    ELSE None

\* result: the returned string; requests: HTTP requests issued;
\* template_id, text0, text1: the data of the request (when one is issued)
generate_custom_meme(category, top_text, bottom_text, resp) ==
    LET template_id == TemplateOf(category) IN
    IF template_id = None
    THEN [result |-> INVALID_CATEGORY, requests |-> 0,
          template_id |-> None, text0 |-> << >>, text1 |-> << >>]
    ELSE [result |-> CaptionOutcome(resp), requests |-> 1,
          template_id |-> template_id, text0 |-> top_text, text1 |-> bottom_text]

(***************************************************************************)
(* The content listings of Reddit.                                         *)
(***************************************************************************)
\* One post of a listing.  media is "absent" (no such key), "null" (the key
\* holds None), "other" (a dict without reddit_video) or "reddit_video" (a
\* dict whose reddit_video.fallback_url is fallback).
Post(is_video, url, media, fallback) ==
    [is_video |-> is_video, url |-> url, media |-> media, fallback |-> fallback]

\* One source's answer: fault (the request, its status or its JSON raises)
\* or the posts of the listing.
Listing(fault, posts) == [fault |-> fault, posts |-> posts]

IMAGE_EXTENSIONS ==
    { << ".","j","p","g" >>, << ".","j","p","e","g" >>,
      << ".","p","n","g" >>, << ".","g","i","f" >> }
MP4 == << ".","m","p","4" >>

\* IsImageUrl comparing the extension as it is written
IsImageUrl_exact(url) == \E ext \in IMAGE_EXTENSIONS : EndsWith(url, ext)

\* line 105
IsImageUrl(url) == \E ext \in IMAGE_EXTENSIONS : EndsWith(Lower(url), ext)

\* lines 101-106: the urls of the posts that pass the filter, in order
RECURSIVE ImagePosts(_)
ImagePosts(posts) ==
    IF posts = << >> THEN << >>
    ELSE (IF IsImageUrl(Head(posts).url) THEN << Head(posts).url >> ELSE << >>)
         \o ImagePosts(Tail(posts))

\* result: the url or None; requests: HTTP requests issued
fetch_random_reddit_image_meme(resp, pick) ==
    LET valid_posts == IF resp.fault THEN << >> ELSE ImagePosts(resp.posts) IN
    [result |-> IF valid_posts # << >> THEN Some(Choice(valid_posts, pick)) ELSE None,
     requests |-> 1, source |-> 0, logged |-> IF resp.fault THEN 1 ELSE 0]

\* lines 128-131 for one post: what is appended, or that the test raises
\* ('reddit_video' in None is a TypeError)
VideoPost(data) ==
    IF data.is_video /\ EndsWith(data.url, MP4)
    THEN [raises |-> FALSE, urls |-> << data.url >>]
    ELSE IF data.media = "absent" THEN [raises |-> FALSE, urls |-> << >>]
    ELSE IF data.media = "null" THEN [raises |-> TRUE, urls |-> << >>]
    ELSE IF data.media = "reddit_video"
    THEN [raises |-> FALSE, urls |-> << data.fallback >>]
    ELSE [raises |-> FALSE, urls |-> << >>]

\* lines 125-131: valid_posts of one listing, or that the loop raised
RECURSIVE VideoPosts(_)
VideoPosts(posts) ==
    IF posts = << >> THEN [raises |-> FALSE, urls |-> << >>]
    ELSE LET first == VideoPost(Head(posts)) IN
         IF first.raises THEN [raises |-> TRUE, urls |-> << >>]
         ELSE LET rest == VideoPosts(Tail(posts)) IN
              [raises |-> rest.raises,
               urls |-> IF rest.raises THEN << >> ELSE first.urls \o rest.urls]

\* lines 120-135 for one subreddit: the except clause swallows every failure
SourceYield(resp) ==
    IF resp.fault THEN [failed |-> TRUE, urls |-> << >>]
    ELSE LET v == VideoPosts(resp.posts) IN
         [failed |-> v.raises, urls |-> v.urls]

RECURSIVE VideoFrom(_, _, _, _, _)

\* VideoFrom giving up at the first subreddit that fails
VideoFrom_abort(n, resps, pick, i, logged) ==
    IF i > n
    THEN [result |-> None, requests |-> n, source |-> 0, logged |-> logged]
    ELSE LET y == SourceYield(resps[i]) IN
         IF y.failed
         THEN [result |-> None, requests |-> i, source |-> 0, logged |-> logged + 1]
         ELSE IF y.urls # << >>
         THEN [result |-> Some(Choice(y.urls, pick)), requests |-> i,
               source |-> i, logged |-> logged]
         ELSE VideoFrom(n, resps, pick, i + 1, logged)

\* lines 119-136 from the i-th subreddit on; logged counts the failures so far
VideoFrom(n, resps, pick, i, logged) ==
    IF i > n
    THEN [result |-> None, requests |-> n, source |-> 0, logged |-> logged]
    ELSE LET y == SourceYield(resps[i]) IN
         IF y.failed THEN VideoFrom(n, resps, pick, i + 1, logged + 1)
         ELSE IF y.urls # << >>
         THEN [result |-> Some(Choice(y.urls, pick)), requests |-> i,
               source |-> i, logged |-> logged]
         ELSE VideoFrom(n, resps, pick, i + 1, logged)

\* result: the url or None; requests: HTTP requests issued; source: the
\* index of the subreddit the url comes from (0: none); logged: failures logged
fetch_reddit_video(category, resps, pick) ==
    VideoFrom(Len(SubredditsOf(category)), resps, pick, 1, 0)

\* no fetcher was called
NoFetch == [result |-> None, requests |-> 0, source |-> 0, logged |-> 0]

\* the fetcher fetch_random_meme calls for a mode
FetcherOf(mode) ==
    IF mode = RANDOM THEN "fetch_random_reddit_image_meme"
    ELSE IF mode = VIDEO THEN "fetch_reddit_video"
    ELSE "none"

fetch_random_meme(mode, category, image_resp, video_resps, pick) ==
    IF FetcherOf(mode) = "fetch_random_reddit_image_meme"
    THEN fetch_random_reddit_image_meme(image_resp, pick)
    ELSE IF FetcherOf(mode) = "fetch_reddit_video"
    THEN fetch_reddit_video(category, video_resps, pick)
    ELSE NoFetch


(***************************************************************************)
(* The state.                                                              *)
(***************************************************************************)
VARIABLES
    runner,     \* main: "polling" (inside updater.idle()) or "sleeping" (line 273)
    conv,       \* the ConversationHandler's state of the user: "NONE" (no
                \* dialog), "OPTION", "CATEGORY", "TOP_TEXT" or "BOTTOM_TEXT"
    user_data,  \* context.user_data: each key missing (None) or present
    event,      \* the inbound event processed last
    from,       \* the state of the dialog when it arrived
    handled,    \* the callback that processed it ("none": no handler took it)
    raised,     \* whether that callback raised (error_handler then ran)
    emitted,    \* the transport calls made for it, in order
    io,         \* the content operation called for it, its inputs and result
    inbox,      \* the updates received and not yet taken by the dispatcher
    pending,    \* the update whose callback waits for a fetcher to return
    twin        \* a second run of the dialog, given the same events and answers

vars ==
    << runner, conv, user_data, event, from, handled, raised, emitted, io,
       inbox, pending, twin >>

\* what only the specifications of the update queue and of the second run change
aux == << inbox, pending, twin >>

\* Conversation states (line 65) and ConversationHandler.END
OPTION == "OPTION"
CATEGORY == "CATEGORY"
TOP_TEXT == "TOP_TEXT"
BOTTOM_TEXT == "BOTTOM_TEXT"
END == "END"
\* the outcome of a callback that raised
RAISE == "RAISE"

\* text[:50] of lines 219 and 225
TruncLen == 50

EmptyUserData ==
    [mode |-> None, category |-> None, top_text |-> None, bottom_text |-> None]

(***************************************************************************)
(* Inbound events.                                                         *)
(***************************************************************************)
Command(name) == [type |-> "command", name |-> name, data |-> << >>, text |-> << >>]
Callback(data) == [type |-> "callback", name |-> "", data |-> data, text |-> << >>]
Text(text) == [type |-> "text", name |-> "", data |-> << >>, text |-> text]
NoEvent == [type |-> "none", name |-> "", data |-> << >>, text |-> << >>]

\* the payloads a button selection may carry: buttons of earlier keyboards
\* stay in the chat, so any of them can arrive in any state
Payloads == { EDIT, RANDOM, VIDEO, DARK_HUMOR, DRAKE, BOGUS }

SHORT_TEXT == << "A" >>
LONG_TEXT == [i \in 1..MaxTextLen |-> IF i <= TruncLen THEN "x" ELSE "y"]
\* a text of exactly 50 characters
FULL_TEXT == [i \in 1..TruncLen |-> "x"]
TextInputs == { SHORT_TEXT, FULL_TEXT, LONG_TEXT }

Events ==
    { Command("start"), Command("cancel"), Command("help") }
    \cup { Callback(p) : p \in Payloads }
    \cup { Text(t) : t \in TextInputs }

(***************************************************************************)
(* Outbound transport calls.                                               *)
(***************************************************************************)
\* One call of the transport: the method, the message (by the name of its
\* template), the mode and category its text names, the url or verbatim
\* text it carries, and the callback data of its buttons.
Call(call, tmpl, mode, cat, body, kb) ==
    [call |-> call, tmpl |-> tmpl, mode |-> mode, cat |-> cat,
     body |-> body, kb |-> kb]

Answer == Call("answer", "", << >>, << >>, << >>, << >>)
ReplyText(tmpl, mode, cat) == Call("reply_text", tmpl, mode, cat, << >>, << >>)

\* whether the i-th transport call of the event succeeds
OkAt(ok, i) == IF i \in DOMAIN ok THEN ok[i] ELSE TRUE

\* Calls made one after the other, the first failure raising: the calls
\* attempted and whether one raised.  base calls were made before.
Attempt(script, ok, base) ==
    LET failing == { i \in 1..Len(script) : ~OkAt(ok, base + i) } IN
    IF failing = {}
    THEN [calls |-> script, failed |-> FALSE]
    ELSE [calls |-> SubSeq(script, 1,
                       CHOOSE i \in failing : \A j \in failing : i <= j),
          failed |-> TRUE]

\* The content operation of an event: the function called and its arguments,
\* what it returned (result, and for generate_custom_meme the data of the
\* request it sent), and what the services answered.
Io(fetcher, category, top_text, bottom_text, r, caption_resp, image_resp, video_resps) ==
    [fetcher |-> fetcher, category |-> category,
     top_text |-> top_text, bottom_text |-> bottom_text,
     result |-> r.result, requests |-> r.requests,
     source |-> r.source, logged |-> r.logged,
     template_id |-> r.template_id, text0 |-> r.text0, text1 |-> r.text1,
     caption_resp |-> caption_resp, image_resp |-> image_resp,
     video_resps |-> video_resps]

NoListing == Listing(FALSE, << >>)
NoRequest == [template_id |-> None, text0 |-> << >>, text1 |-> << >>]
NoIo ==
    Io("none", << >>, << >>, << >>, NoFetch @@ NoRequest, NoCaptionResponse,
       NoListing, << >>)

\* what a callback did: the calls made, user_data after it, the state it
\* returned (or RAISE), and the content operation it called
Outcome(calls, ud, ret, i) == [calls |-> calls, ud |-> ud, ret |-> ret, io |-> i]


(***************************************************************************)
(* The callbacks.  ok tells which transport calls of the event succeed.    *)
(***************************************************************************)
start_command(ud, ok) ==
    LET a == Attempt(<< Call("reply_photo", "welcome", << >>, << >>, << >>, << >>),
                        Call("reply_text", "select_mode", << >>, << >>, << >>,
                             << EDIT, RANDOM, VIDEO >>) >>, ok, 0) IN
    Outcome(a.calls, ud, IF a.failed THEN RAISE ELSE OPTION, NoIo)

\* CategoriesFor without the video restriction
CategoriesFor_all(mode) == ALL_CATEGORIES

\* line 176
CategoriesFor(mode) == IF mode = VIDEO THEN VIDEO_CATEGORIES ELSE ALL_CATEGORIES

handle_option(ud, data, ok) ==
    LET mode == data
        ud1 == [ud EXCEPT !.mode = Some(mode)]
        edit == Call("edit_message_text", "selected_mode", mode, << >>, << >>, << >>)
        choose == Call("reply_text", "choose_category", << >>, << >>, << >>,
                       CategoriesFor(mode))
        \* lines 170-174: a failed edit falls back to a new message
        rest == IF OkAt(ok, 2)
                THEN << choose >>
                ELSE << ReplyText("selected_mode", mode, << >>), choose >>
        a == Attempt(rest, ok, 2)
    IN  IF ~OkAt(ok, 1)
        THEN Outcome(<< Answer >>, ud, RAISE, NoIo)
        ELSE Outcome(<< Answer, edit >> \o a.calls, ud1,
                     IF a.failed THEN RAISE ELSE CATEGORY, NoIo)

\* context.user_data.get("mode", "edit")
ModeOf(ud) == IF ud.mode = None THEN EDIT ELSE ud.mode[1]

\* CategoryReturn asking for the bottom text at once
CategoryReturn_skip(mode) == IF mode = EDIT THEN BOTTOM_TEXT ELSE END

\* lines 189-192 and 199, 215: the state handle_category returns
CategoryReturn(mode) == IF mode = EDIT THEN TOP_TEXT ELSE END

\* MediaCall sending every meme as a photo
MediaCall_photo(mode, category, meme_url) ==
    Call("reply_photo", "random_meme", << >>, category, meme_url, << >>)

\* lines 201-210: the media message of a fetched meme
MediaCall(mode, category, meme_url) ==
    IF mode = VIDEO
    THEN Call("reply_video", "video_meme", << >>, category, meme_url, << >>)
    ELSE Call("reply_photo", "random_meme", << >>, category, meme_url, << >>)

handle_category(ud, data, ok, image_resp, video_resps, pick) ==
    LET category == data
        ud1 == [ud EXCEPT !.category = Some(category)]
        mode == ModeOf(ud1)
        f == fetch_random_meme(mode, category, image_resp, video_resps, pick)
        fio == Io(FetcherOf(mode), category, << >>, << >>, f @@ NoRequest,
                  NoCaptionResponse,
                  IF FetcherOf(mode) = "fetch_random_reddit_image_meme"
                  THEN image_resp ELSE NoListing,
                  IF FetcherOf(mode) = "fetch_reddit_video"
                  THEN SubSeq(video_resps, 1, f.requests) ELSE << >>)
        \* "if not meme_url": None and the empty string alike
        found == f.result # None /\ f.result[1] # << >>
    IN  IF ~OkAt(ok, 1)
        THEN Outcome(<< Answer >>, ud, RAISE, NoIo)
        ELSE IF mode = EDIT
        THEN LET a == Attempt(<< Call("edit_message_text", "selected_category",
                                      << >>, category, << >>, << >>),
                                 ReplyText("send_top_text", << >>, << >>) >>, ok, 1)
             IN  Outcome(<< Answer >> \o a.calls, ud1,
                         IF a.failed THEN RAISE ELSE CategoryReturn(mode), NoIo)
        ELSE IF ~found
        THEN LET a == Attempt(<< ReplyText("not_found", mode, category) >>, ok, 1)
             IN  Outcome(<< Answer >> \o a.calls, ud1,
                         IF a.failed THEN RAISE ELSE CategoryReturn(mode), fio)
        ELSE LET a == Attempt(<< MediaCall(mode, category, f.result[1]),
                                 ReplyText("type_start", << >>, << >>) >>, ok, 1)
                 \* lines 212-214: a failed send is answered with its error
                 b == Attempt(<< ReplyText("send_error", << >>, << >>) >>, ok,
                              1 + Len(a.calls))
             IN  IF ~a.failed
                 THEN Outcome(<< Answer >> \o a.calls, ud1, CategoryReturn(mode), fio)
                 ELSE Outcome(<< Answer >> \o a.calls \o b.calls, ud1,
                              IF b.failed THEN RAISE ELSE CategoryReturn(mode), fio)

\* handle_top_text that does not store the text
handle_top_text_forget(ud, text, ok) ==
    LET a == Attempt(<< ReplyText("send_bottom_text", << >>, << >>) >>, ok, 0)
    IN  Outcome(a.calls, ud, IF a.failed THEN RAISE ELSE BOTTOM_TEXT, NoIo)

handle_top_text(ud, text, ok) ==
    LET ud1 == [ud EXCEPT !.top_text = Some(Prefix(text, TruncLen))]
        a == Attempt(<< ReplyText("send_bottom_text", << >>, << >>) >>, ok, 0)
    IN  Outcome(a.calls, ud1, IF a.failed THEN RAISE ELSE BOTTOM_TEXT, NoIo)

\* IsUrl taking every result for a url
IsUrl_always(meme_url) == TRUE

\* line 229
IsUrl(meme_url) == StartsWith(meme_url, HTTP)

\* lines 229-232: the message that carries the result of generate_custom_meme
ResultCall(meme_url) ==
    IF IsUrl(meme_url)
    THEN Call("reply_photo", "custom_meme", << >>, << >>, meme_url, << >>)
    ELSE Call("reply_text", "verbatim", << >>, << >>, meme_url, << >>)

handle_bottom_text(ud, text, ok, caption_resp) ==
    LET bottom_text == Prefix(text, TruncLen)
        ud1 == [ud EXCEPT !.bottom_text = Some(bottom_text)]
    IN  \* context.user_data["category"], ["top_text"]: a missing key raises
        IF ud1.category = None \/ ud1.top_text = None
        THEN Outcome(<< >>, ud1, RAISE, NoIo)
        ELSE LET category == ud1.category[1]
                 g == generate_custom_meme(category, ud1.top_text[1], bottom_text,
                                           caption_resp)
                 gio == Io("generate_custom_meme", category, ud1.top_text[1], bottom_text,
                           [result |-> Some(g.result), requests |-> g.requests,
                            source |-> 0, logged |-> 0, template_id |-> g.template_id,
                            text0 |-> g.text0, text1 |-> g.text1],
                           IF g.requests = 0 THEN NoCaptionResponse ELSE caption_resp,
                           NoListing, << >>)
                 a == Attempt(<< ResultCall(g.result),
                                 ReplyText("create_another", << >>, << >>) >>, ok, 0)
             IN  Outcome(a.calls, ud1, IF a.failed THEN RAISE ELSE END, gio)

\* cancel without user_data.clear()
cancel_keep(ud, ok) ==
    LET a == Attempt(<< ReplyText("cancelled", << >>, << >>) >>, ok, 0) IN
    Outcome(a.calls, ud, IF a.failed THEN RAISE ELSE END, NoIo)

\* cancel with user_data.clear() before the reply
cancel_clear_first(ud, ok) ==
    LET a == Attempt(<< ReplyText("cancelled", << >>, << >>) >>, ok, 0) IN
    Outcome(a.calls, EmptyUserData, IF a.failed THEN RAISE ELSE END, NoIo)

cancel(ud, ok) ==
    LET a == Attempt(<< ReplyText("cancelled", << >>, << >>) >>, ok, 0) IN
    IF a.failed
    THEN Outcome(a.calls, ud, RAISE, NoIo)
    ELSE Outcome(a.calls, EmptyUserData, END, NoIo)

\* error_handler: the apology sent for a callback that raised
error_handler == << ReplyText("error_occurred", << >>, << >>) >>

(***************************************************************************)
(* Dispatch: which callback of the ConversationHandler of main takes an    *)
(* event (entry point with allow_reentry, then the handlers of the state,  *)
(* then the fallbacks).                                                    *)
(***************************************************************************)
IsStart(ev) == ev.type = "command" /\ ev.name = "start"
IsCancel(ev) == ev.type = "command" /\ ev.name = "cancel"

\* line 264
allow_reentry == TRUE

\* StateHandler with handlers that take texts and buttons alike
StateHandler_untyped(state, ev) ==
    CASE state = OPTION /\ ev.type \in {"callback", "text"} -> "handle_option"
      [] state = CATEGORY /\ ev.type \in {"callback", "text"} -> "handle_category"
      [] state = TOP_TEXT /\ ev.type \in {"callback", "text"} -> "handle_top_text"
      [] state = BOTTOM_TEXT /\ ev.type \in {"callback", "text"} -> "handle_bottom_text"
      [] OTHER -> "none"

StateHandler(state, ev) ==
    CASE state = OPTION /\ ev.type = "callback" -> "handle_option"
      [] state = CATEGORY /\ ev.type = "callback" -> "handle_category"
      [] state = TOP_TEXT /\ ev.type = "text" -> "handle_top_text"
      [] state = BOTTOM_TEXT /\ ev.type = "text" -> "handle_bottom_text"
      [] OTHER -> "none"

SelectHandler(state, ev) ==
    IF (state = "NONE" \/ allow_reentry) /\ IsStart(ev) THEN "start_command"
    ELSE IF state = "NONE" THEN "none"
    ELSE IF StateHandler(state, ev) # "none" THEN StateHandler(state, ev)
    ELSE IF IsCancel(ev) THEN "cancel"
    ELSE "none"

\* the state the ConversationHandler keeps after a callback returned ret
NextConv(state, ret) ==
    IF ret = RAISE THEN state
    ELSE IF ret = END THEN "NONE"
    ELSE ret

\* the transport calls a callback makes at most (error_handler's apart)
StartCalls == 2
OptionCalls == 4
CategoryCalls == 4
TopTextCalls == 1
BottomTextCalls == 2
CancelCalls == 1

\* which of the n transport calls of a callback succeed
OkPatterns(n) == [1..n -> BOOLEAN]

\* an event was taken by callback name, which did out
Dispatched(ev, name, out) ==
    /\ runner = "polling"
    /\ SelectHandler(conv, ev) = name
    /\ event' = ev
    /\ from' = conv
    /\ handled' = name
    /\ raised' = (out.ret = RAISE)
    /\ emitted' = IF out.ret = RAISE THEN out.calls \o error_handler ELSE out.calls
    /\ user_data' = out.ud
    /\ conv' = NextConv(conv, out.ret)
    /\ io' = out.io
    /\ UNCHANGED runner

(***************************************************************************)
(* The inputs the content services give the dialog.                        *)
(***************************************************************************)
URL_X ==
    << "h","t","t","p","s",":","/","/","i",".","i","m",
       "g","f","l","i","p",".","c","o","m","/","x",".",
       "j","p","g" >>
BAD_TEMPLATE ==
    << "b","a","d"," ","t","e","m","p","l","a","t","e" >>
HTTP_DOWN ==
    << "h","t","t","p"," ","d","o","w","n" >>

CaptionResponses ==
    { CaptionResponse("transport", << >>, FALSE, << >>),
      CaptionResponse("http_error", << >>, FALSE, << >>),
      CaptionResponse("malformed", << >>, FALSE, << >>),
      CaptionResponse("success", URL_X, FALSE, << >>),
      CaptionResponse("failure", << >>, TRUE, BAD_TEMPLATE),
      CaptionResponse("failure", << >>, TRUE, HTTP_DOWN),
      CaptionResponse("failure", << >>, FALSE, << >>) }

\* posts of the subreddit tagged t
Mp4Post(t) == Post(TRUE, << t, ".", "m", "p", "4" >>, "absent", << >>)
HostedPost(t) == Post(TRUE, << t, "v" >>, "reddit_video", << t, "f" >>)
EmbedPost(t) == Post(FALSE, << t, "e" >>, "other", << >>)
NullMediaPost(t) == Post(FALSE, << t, ".", "j", "p", "g" >>, "null", << >>)
JpgPost(t) == Post(FALSE, << t, ".", "J", "P", "G" >>, "null", << >>)

ImageResponses ==
    { Listing(TRUE, << >>), Listing(FALSE, << >>),
      Listing(FALSE, << EmbedPost("m") >>),
      Listing(FALSE, << EmbedPost("m"), JpgPost("m") >>) }

\* the listings of the subreddits of a video category, as the dialog sees them
DialogListings(t) ==
    { Listing(TRUE, << >>), Listing(FALSE, << >>), Listing(FALSE, << Mp4Post(t) >>),
      Listing(FALSE, << HostedPost(t), NullMediaPost(t) >>) }
VideoResponses == { << a, b >> : a \in DialogListings("1"), b \in DialogListings("2") }

(***************************************************************************)
(* The actions: one per callback, one for an event no callback takes, and  *)
(* the two steps of the loop of main.                                      *)
(***************************************************************************)
\* the second run before its first event
NoTwin ==
    [conv |-> "NONE", user_data |-> EmptyUserData, handled |-> "init",
     raised |-> FALSE, emitted |-> << >>, io |-> NoIo]

\* a new process: no dialog, an empty session, nothing received
Fresh ==
    /\ runner = "polling"
    /\ conv = "NONE"
    /\ user_data = EmptyUserData
    /\ event = NoEvent
    /\ from = "NONE"
    /\ handled = "init"
    /\ raised = FALSE
    /\ emitted = << >>
    /\ io = NoIo
    /\ inbox = << >>
    /\ pending = None

Init ==
    /\ Fresh
    /\ twin = NoTwin

StartCommand ==
    /\ UNCHANGED aux
    /\ \E ev \in Events :
        /\ SelectHandler(conv, ev) = "start_command"
        /\ \E ok \in OkPatterns(StartCalls) :
              Dispatched(ev, "start_command", start_command(user_data, ok))

HandleOption ==
    /\ UNCHANGED aux
    /\ \E ev \in Events :
        /\ SelectHandler(conv, ev) = "handle_option"
        /\ \E ok \in OkPatterns(OptionCalls) :
              Dispatched(ev, "handle_option", handle_option(user_data, ev.data, ok))

HandleCategory ==
    /\ UNCHANGED aux
    /\ \E ev \in Events :
        /\ SelectHandler(conv, ev) = "handle_category"
        /\ LET fetcher == FetcherOf(ModeOf(user_data)) IN
           \E ok \in OkPatterns(CategoryCalls),
              image_resp \in (IF fetcher = "fetch_random_reddit_image_meme"
                              THEN ImageResponses ELSE { NoListing }),
              video_resps \in (IF fetcher = "fetch_reddit_video"
                                  /\ SubredditsOf(ev.data) # << >>
                               THEN VideoResponses ELSE { << >> }),
              pick \in (IF fetcher = "none" THEN { 1 } ELSE 1..MaxListing) :
                Dispatched(ev, "handle_category",
                           handle_category(user_data, ev.data, ok, image_resp,
                                           video_resps, pick))

HandleTopText ==
    /\ UNCHANGED aux
    /\ \E ev \in Events :
        /\ SelectHandler(conv, ev) = "handle_top_text"
        /\ \E ok \in OkPatterns(TopTextCalls) :
              Dispatched(ev, "handle_top_text",
                         handle_top_text(user_data, ev.text, ok))

HandleBottomText ==
    /\ UNCHANGED aux
    /\ \E ev \in Events :
        /\ SelectHandler(conv, ev) = "handle_bottom_text"
        /\ \E ok \in OkPatterns(BottomTextCalls), caption_resp \in CaptionResponses :
              Dispatched(ev, "handle_bottom_text",
                         handle_bottom_text(user_data, ev.text, ok, caption_resp))

Cancel ==
    /\ UNCHANGED aux
    /\ \E ev \in Events :
        /\ SelectHandler(conv, ev) = "cancel"
        /\ \E ok \in OkPatterns(CancelCalls) :
              Dispatched(ev, "cancel", cancel(user_data, ok))

\* an event no callback takes: nothing runs
Ignored ==
    /\ UNCHANGED aux
    /\ \E ev \in Events :
        Dispatched(ev, "none", Outcome(<< >>, user_data, conv, NoIo))

\* RunnerCrash with the exception leaving main
RunnerCrash_exit ==
    /\ runner = "polling"
    /\ runner' = "stopped"
    /\ handled' = "crash"
    /\ event' = NoEvent
    /\ from' = conv
    /\ raised' = FALSE
    /\ emitted' = << >>
    /\ io' = NoIo
    /\ UNCHANGED << conv, user_data >>
    /\ UNCHANGED aux

\* main, lines 271-273: the updater failed, the loop logs and sleeps
RunnerCrash ==
    /\ runner = "polling"
    /\ runner' = "sleeping"
    /\ handled' = "crash"
    /\ event' = NoEvent
    /\ from' = conv
    /\ raised' = FALSE
    /\ emitted' = << >>
    /\ io' = NoIo
    /\ UNCHANGED << conv, user_data >>
    /\ UNCHANGED aux

\* main, lines 253-270: a new Updater and Dispatcher, with no dialog and no
\* user_data of the ones before
RunnerRestart ==
    /\ runner = "sleeping"
    /\ runner' = "polling"
    /\ conv' = "NONE"
    /\ user_data' = EmptyUserData
    /\ handled' = "restart"
    /\ event' = NoEvent
    /\ from' = conv
    /\ raised' = FALSE
    /\ emitted' = << >>
    /\ io' = NoIo
    /\ UNCHANGED aux

Next ==
    \/ StartCommand
    \/ HandleOption
    \/ HandleCategory
    \/ HandleTopText
    \/ HandleBottomText
    \/ Cancel
    \/ Ignored
    \/ RunnerCrash
    \/ RunnerRestart

Spec == Init /\ [][Next]_vars

\* time.sleep(5) of line 273 returns and "while True" runs the body again
LiveSpec == Spec /\ WF_vars(RunnerRestart)


(***************************************************************************)
(* fetch_reddit_video on its own: every category and every pair of         *)
(* listings of at most MaxListing posts.                                   *)
(***************************************************************************)
SeqsUpTo(S, n) == UNION { [1..k -> S] : k \in 0..n }

FetchPosts(t) == { Mp4Post(t), HostedPost(t), EmbedPost(t), NullMediaPost(t) }

FetchListings(t) ==
    { Listing(TRUE, << >>) }
    \cup { Listing(FALSE, posts) : posts \in SeqsUpTo(FetchPosts(t), MaxListing) }

FetchCategories == { DARK_HUMOR, DISTRACTED, DRAKE }

\* one call of fetch_reddit_video, from the initial state
FetchVideo ==
    /\ handled = "init"
    /\ \E category \in FetchCategories :
          \E resps \in (IF SubredditsOf(category) = << >> THEN { << >> }
                        ELSE FetchListings("1") \X FetchListings("2")),
             pick \in 1..MaxListing :
              /\ handled' = "fetch_reddit_video"
              /\ io' = Io("fetch_reddit_video", category, << >>, << >>,
                          fetch_reddit_video(category, resps, pick) @@ NoRequest,
                          NoCaptionResponse, NoListing, resps)
        /\ UNCHANGED << runner, conv, user_data, event, from, raised, emitted, aux >>

\* categories as generate_custom_meme may be given them
DRAKE_TITLE == << "D","r","a","k","e" >>
DARK_HUMOR_UPPER == << "D","A","R","K"," ","H","U","M","O","R" >>
CaptionCategories == { DRAKE, DRAKE_TITLE, DARK_HUMOR_UPPER, BOGUS, EDIT }

\* one call of generate_custom_meme, from the initial state
FetchCaption ==
    /\ handled = "init"
    /\ \E category \in CaptionCategories, top_text \in TextInputs,
          bottom_text \in TextInputs, resp \in CaptionResponses :
          LET g == generate_custom_meme(category, top_text, bottom_text, resp) IN
          /\ handled' = "generate_custom_meme"
          /\ io' = Io("generate_custom_meme", category, top_text, bottom_text,
                      [result |-> Some(g.result), requests |-> g.requests,
                       source |-> 0, logged |-> 0, template_id |-> g.template_id,
                       text0 |-> g.text0, text1 |-> g.text1],
                      IF g.requests = 0 THEN NoCaptionResponse ELSE resp,
                      NoListing, << >>)
    /\ UNCHANGED << runner, conv, user_data, event, from, raised, emitted, aux >>

\* posts of r/memes by their url
UrlPost(url) == Post(FALSE, url, "null", << >>)
ImageUrls ==
    { << "a", ".", "j", "p", "g" >>, << "b", ".", "P", "N", "G" >>,
      << "c", ".", "j", "p", "e", "g" >>, << "d", ".", "m", "p", "4" >>,
      << "e", "g", "i", "f" >> }
ImageListings ==
    { Listing(TRUE, << >>) }
    \cup { Listing(FALSE, posts) :
             posts \in SeqsUpTo({ UrlPost(u) : u \in ImageUrls }, MaxListing) }

\* one call of fetch_random_reddit_image_meme, from the initial state
FetchImage ==
    /\ handled = "init"
    /\ \E resp \in ImageListings, pick \in 1..MaxListing :
          /\ handled' = "fetch_random_reddit_image_meme"
          /\ io' = Io("fetch_random_reddit_image_meme", << >>, << >>, << >>,
                      fetch_random_reddit_image_meme(resp, pick) @@ NoRequest,
                      NoCaptionResponse, resp, << >>)
    /\ UNCHANGED << runner, conv, user_data, event, from, raised, emitted, aux >>

FetchNext ==
    \/ FetchVideo
    \/ FetchCaption
    \/ FetchImage

FetchSpec == Init /\ [][FetchNext]_vars

(***************************************************************************)
(* An event processed with given inputs: which transport calls succeed and *)
(* what the content services answer.                                       *)
(***************************************************************************)
CallsOf(name) ==
    CASE name = "start_command" -> StartCalls
      [] name = "handle_option" -> OptionCalls
      [] name = "handle_category" -> CategoryCalls
      [] name = "handle_top_text" -> TopTextCalls
      [] name = "handle_bottom_text" -> BottomTextCalls
      [] name = "cancel" -> CancelCalls
      [] OTHER -> 0

\* the listings of a video category with its second subreddit down
FirstSourceResponses ==
    { << a, Listing(TRUE, << >>) >> : a \in DialogListings("1") }

\* the inputs the callback of event ev may meet in state and session ud
InputsFor(state, ud, ev) ==
    LET name == SelectHandler(state, ev)
        fetcher == IF name = "handle_category"
                   THEN FetcherOf(ModeOf(ud)) ELSE "none"
        images == IF fetcher = "fetch_random_reddit_image_meme"
                  THEN ImageResponses ELSE { NoListing }
        videos == IF fetcher = "fetch_reddit_video" /\ SubredditsOf(ev.data) # << >>
                  THEN FirstSourceResponses ELSE { << >> }
        picks == IF fetcher = "none" THEN { 1 } ELSE 1..MaxListing
        captions == IF name = "handle_bottom_text"
                    THEN CaptionResponses ELSE { NoCaptionResponse }
    IN  { [ok |-> x[1], image_resp |-> x[2], video_resps |-> x[3],
           pick |-> x[4], caption_resp |-> x[5]] :
          x \in OkPatterns(CallsOf(name)) \X images \X videos \X picks \X captions }

\* the callback that takes ev in state, and what it does with session ud
Run(state, ud, ev, in) ==
    LET name == SelectHandler(state, ev) IN
    [name |-> name,
     out |-> CASE name = "start_command" -> start_command(ud, in.ok)
               [] name = "handle_option" -> handle_option(ud, ev.data, in.ok)
               [] name = "handle_category" ->
                    handle_category(ud, ev.data, in.ok, in.image_resp,
                                    in.video_resps, in.pick)
               [] name = "handle_top_text" -> handle_top_text(ud, ev.text, in.ok)
               [] name = "handle_bottom_text" ->
                    handle_bottom_text(ud, ev.text, in.ok, in.caption_resp)
               [] name = "cancel" -> cancel(ud, in.ok)
               [] OTHER -> Outcome(<< >>, ud, state, NoIo)]

\* the dispatcher processes event ev
Handle(ev) ==
    \E in \in InputsFor(conv, user_data, ev) :
        LET r == Run(conv, user_data, ev, in) IN Dispatched(ev, r.name, r.out)

(***************************************************************************)
(* The update queue: updates arrive while the dispatcher runs a callback,  *)
(* and a callback that calls a fetcher returns only after the fetcher did. *)
(***************************************************************************)
\* run_async with the callbacks run in threads of their own
run_async_on == TRUE

\* lines 255-263: no handler is registered with run_async
run_async == FALSE

OrderEvents ==
    { Command("start"), Command("cancel"), Callback(RANDOM), Callback(DRAKE) }

\* the callback of ev calls a fetcher that sends a request (line 194)
Fetching(ev) ==
    /\ SelectHandler(conv, ev) = "handle_category"
    /\ FetcherOf(ModeOf(user_data)) # "none"

\* the dispatcher may take the next update
Free == pending = None \/ run_async

\* an update of the user arrives
Arrive ==
    /\ runner = "polling"
    /\ Len(inbox) < MaxInbox
    /\ \E ev \in OrderEvents : inbox' = Append(inbox, ev)
    /\ UNCHANGED << runner, conv, user_data, event, from, handled, raised,
                    emitted, io, pending, twin >>

\* the dispatcher takes the oldest update; its callback calls no fetcher
TakeEvent ==
    /\ inbox # << >>
    /\ Free
    /\ ~Fetching(Head(inbox))
    /\ Handle(Head(inbox))
    /\ inbox' = Tail(inbox)
    /\ UNCHANGED << pending, twin >>

\* the dispatcher takes the oldest update; handle_category calls the fetcher
BeginFetch ==
    /\ inbox # << >>
    /\ pending = None
    /\ Fetching(Head(inbox))
    /\ pending' = Some(Head(inbox))
    /\ inbox' = Tail(inbox)
    /\ UNCHANGED << runner, conv, user_data, event, from, handled, raised,
                    emitted, io, twin >>

\* the fetcher returns and handle_category goes on to its end (lines 195-215)
EndFetch ==
    /\ pending # None
    /\ SelectHandler(conv, pending[1]) = "handle_category"
    /\ Handle(pending[1])
    /\ pending' = None
    /\ UNCHANGED << inbox, twin >>

OrderNext ==
    \/ Arrive
    \/ TakeEvent
    \/ BeginFetch
    \/ EndFetch

OrderSpec == Init /\ [][OrderNext]_vars

(***************************************************************************)
(* Two runs of the dialog that get the same events, the same transport     *)
(* faults and the same answers of the content services: one of a new user, *)
(* one (twin) whose session holds what earlier dialogs left in it.         *)
(***************************************************************************)
\* sessions as dialogs that came to their end leave them
LeftOvers ==
    { [mode |-> Some(RANDOM), category |-> Some(DRAKE),
       top_text |-> None, bottom_text |-> None],
      [mode |-> Some(EDIT), category |-> Some(DARK_HUMOR),
       top_text |-> Some(SHORT_TEXT), bottom_text |-> Some(FULL_TEXT)],
      [mode |-> Some(VIDEO), category |-> Some(DARK_HUMOR),
       top_text |-> Some(FULL_TEXT), bottom_text |-> Some(SHORT_TEXT)] }

\* the second run after its callback r
After(run, r) ==
    [conv |-> NextConv(run.conv, r.out.ret),
     user_data |-> r.out.ud,
     handled |-> r.name,
     raised |-> (r.out.ret = RAISE),
     emitted |-> IF r.out.ret = RAISE THEN r.out.calls \o error_handler
                 ELSE r.out.calls,
     io |-> r.out.io]

IndepInit ==
    /\ Fresh
    /\ twin \in { [NoTwin EXCEPT !.user_data = l] : l \in LeftOvers }

\* the events the two runs are sent
TwinEvents ==
    { Command("start"), Command("cancel") }
    \cup { Callback(d) : d \in { EDIT, RANDOM, VIDEO, DARK_HUMOR, DRAKE } }
    \cup { Text(t) : t \in { SHORT_TEXT, LONG_TEXT } }

\* both runs process the same event with the same inputs
Both ==
    /\ \E ev \in TwinEvents :
          \E in \in InputsFor(conv, user_data, ev) :
              LET r == Run(conv, user_data, ev, in)
                  t == Run(twin.conv, twin.user_data, ev, in)
              IN  /\ Dispatched(ev, r.name, r.out)
                  /\ twin' = After(twin, t)
    /\ UNCHANGED << inbox, pending >>

IndepSpec == IndepInit /\ [][Both]_vars

(***************************************************************************)
(* Properties of the dialog.                                               *)
(***************************************************************************)
\* the callback of the last event returned (it did not raise)
Returned(name) == handled = name /\ ~raised

\* the calls of the last event that send an image
ImageCalls == { i \in 1..Len(emitted) : emitted[i].call = "reply_photo" }

\* C1: State sequence.  A start command opens a session in AWAITING_MODE
\* (OPTION).  From there every event other than a start or a cancel command
\* either leaves the state alone or moves it one step forward in the order
\* of the session's mode: OPTION -> CATEGORY, then for mode Edit
\* CATEGORY -> TOP_TEXT -> BOTTOM_TEXT -> DONE, for mode Random or Video
\* CATEGORY -> DONE directly; a category selection that returns always makes
\* that step.  No other change of state happens.
C1_Advance ==
    LET mode == user_data'.mode IN
    \/ conv = OPTION /\ conv' = CATEGORY /\ mode # None
    \/ conv = CATEGORY /\ conv' = TOP_TEXT /\ mode = Some(EDIT)
    \/ conv = CATEGORY /\ conv' = "NONE" /\ mode # None /\ mode # Some(EDIT)
    \/ conv = TOP_TEXT /\ conv' = BOTTOM_TEXT /\ mode = Some(EDIT)
    \/ conv = BOTTOM_TEXT /\ conv' = "NONE" /\ mode = Some(EDIT)

C1_Step ==
    /\ (handled' = "start_command" /\ ~raised') => conv' = OPTION
    /\ (handled' \notin { "start_command", "cancel", "crash", "restart" }
          /\ conv' # conv) => C1_Advance
    /\ (handled' = "handle_category" /\ ~raised') =>
          /\ user_data'.mode = Some(EDIT) => conv' = TOP_TEXT
          /\ user_data'.mode \in { Some(RANDOM), Some(VIDEO) } => conv' = "NONE"
    /\ (handled' \in { "handle_option", "handle_top_text", "handle_bottom_text" }
          /\ ~raised') => conv' # conv

C1_StateSequence == [][C1_Step]_vars

\* an Edit dialog went through its last step
C1_Witness ==
    /\ Returned("handle_bottom_text")
    /\ from = BOTTOM_TEXT /\ conv = "NONE"
    /\ user_data.mode = Some(EDIT)

\* C2: Cancellation.  In every state of a dialog the cancel command is taken
\* by cancel, which acknowledges, clears user_data and ends the dialog; the
\* start command that follows opens AWAITING_MODE with no mode, category or
\* text in user_data.
C2_Step ==
    /\ (conv # "NONE" /\ event' = Command("cancel")) => handled' = "cancel"
    /\ (handled' = "cancel" /\ ~raised') =>
          /\ emitted' = << ReplyText("cancelled", << >>, << >>) >>
          /\ user_data' = EmptyUserData
          /\ conv' = "NONE"
    /\ (Returned("cancel") /\ handled' = "start_command" /\ ~raised') =>
          /\ conv' = OPTION
          /\ user_data' = EmptyUserData

C2_Cancellation == [][C2_Step]_vars

\* a dialog with a category and a top text was cancelled
C2_Witness ==
    /\ Returned("cancel")
    /\ from = BOTTOM_TEXT
    /\ user_data = EmptyUserData

\* C3: Re-entry.  Right after a start command the user is in AWAITING_MODE
\* and user_data holds no mode, category or top text of the dialog before.
C3_ReentryDiscards ==
    Returned("start_command") =>
        /\ conv = OPTION
        /\ user_data.mode = None
        /\ user_data.category = None
        /\ user_data.top_text = None

\* C4: Completion clears the session.  When handle_category or
\* handle_bottom_text ends the dialog, user_data is empty, as after cancel.
C4_CompletionClears ==
    ( /\ handled \in { "handle_category", "handle_bottom_text" }
      /\ ~raised
      /\ conv = "NONE" ) => user_data = EmptyUserData

\* the captioning service answered success=false with an error message
C5_Case ==
    /\ handled = "handle_bottom_text"
    /\ io.caption_resp.kind = "failure"
    /\ io.caption_resp.has_msg

\* C5 as claimed: on a well-formed failure with message M the bottom-text
\* step sends exactly M as plain text, and no image.
C5_ExactMessage ==
    C5_Case =>
        /\ emitted[1] = Call("reply_text", "verbatim", << >>, << >>,
                             io.caption_resp.msg, << >>)
        /\ ImageCalls = {}

\* C5 as amended: on an answer with a non-error HTTP status, success=false
\* and message M, the bottom-text step sends exactly "API Error: " followed
\* by M as plain text, and no image.
C5_PrefixedMessage ==
    C5_Case =>
        /\ emitted[1] = Call("reply_text", "verbatim", << >>, << >>,
                             API_ERROR_PREFIX \o io.caption_resp.msg, << >>)
        /\ ImageCalls = {}

C5_Witness ==
    /\ C5_Case
    /\ ~raised
    /\ io.caption_resp.msg = BAD_TEMPLATE

\* C6: In AWAITING_BOTTOM_TEXT a free text calls generate_custom_meme with
\* the category and top text of user_data and the text cut to 50
\* characters; an image with the returned url is sent exactly when the
\* captioning succeeded, a text otherwise; the dialog ends either way.
C6_BottomText ==
    Returned("handle_bottom_text") =>
        /\ from = BOTTOM_TEXT /\ event.type = "text"
        /\ io.fetcher = "generate_custom_meme"
        /\ io.category = user_data.category[1]
        /\ io.top_text = user_data.top_text[1]
        /\ io.bottom_text = Prefix(event.text, TruncLen)
        /\ IF io.requests = 1 /\ io.caption_resp.kind = "success"
           THEN /\ emitted[1].call = "reply_photo"
                /\ emitted[1].body = io.caption_resp.url
           ELSE /\ emitted[1].call = "reply_text"
                /\ ImageCalls = {}
        /\ conv = "NONE"

C6_Witness ==
    /\ Returned("handle_bottom_text")
    /\ io.caption_resp.kind = "success"
    /\ emitted[1].body = URL_X

\* C7: In AWAITING_CATEGORY a category selection records the category.  With
\* mode Random or Video it calls the fetcher of the mode; without content it
\* sends the apology naming mode and category, with content it sends the url
\* as a video (Video) or as an image (Random); the dialog ends either way.
\* With mode Edit no fetcher is called and the state is AWAITING_TOP_TEXT.
C7_CategorySelection ==
    Returned("handle_category") =>
        LET mode == user_data.mode[1]
            category == event.data
        IN  /\ from = CATEGORY /\ event.type = "callback"
            /\ user_data.category = Some(category)
            /\ mode = EDIT =>
                  /\ io.fetcher = "none" /\ io.requests = 0
                  /\ conv = TOP_TEXT
            /\ mode \in { RANDOM, VIDEO } =>
                  /\ io.fetcher = (IF mode = VIDEO THEN "fetch_reddit_video"
                                   ELSE "fetch_random_reddit_image_meme")
                  /\ io.category = category
                  /\ mode = RANDOM => io.requests = 1
                  /\ conv = "NONE"
                  /\ IF io.result = None
                     THEN emitted = << Answer, ReplyText("not_found", mode, category) >>
                     ELSE /\ emitted[2].call =
                                (IF mode = VIDEO THEN "reply_video" ELSE "reply_photo")
                          /\ emitted[2].body = io.result[1]
                          /\ emitted[2].cat = category

\* a video was fetched for "dark humor" and sent
C7_Witness ==
    /\ Returned("handle_category")
    /\ user_data.mode = Some(VIDEO)
    /\ event.data = DARK_HUMOR
    /\ io.result # None
    /\ emitted[2].call = "reply_video"

\* C10: Video-category restriction.  After a mode selection the categories
\* offered are exactly VIDEO_CATEGORIES for mode Video and exactly the
\* catalog otherwise; VIDEO_CATEGORIES is part of the catalog and each of
\* its categories has subreddits in subreddit_map.
C10_Offered ==
    LET last == emitted[Len(emitted)] IN
    /\ last.tmpl = "choose_category"
    /\ IF event.data = VIDEO
       THEN Range(last.kb) = { DARK_HUMOR, DISTRACTED }
       ELSE Range(last.kb) = DOMAIN MEME_TEMPLATES
    /\ \A i, j \in 1..Len(last.kb) : last.kb[i] = last.kb[j] => i = j

C10_VideoCategories ==
    /\ Returned("handle_option") =>
          /\ from = OPTION /\ conv = CATEGORY
          /\ user_data.mode = Some(event.data)
          /\ C10_Offered
    /\ Range(VIDEO_CATEGORIES) \subseteq DOMAIN MEME_TEMPLATES
    /\ \A c \in Range(VIDEO_CATEGORIES) : SubredditsOf(c) # << >>

C10_Witness ==
    /\ Returned("handle_option")
    /\ event.data = VIDEO
    /\ Len(emitted[Len(emitted)].kb) = 2


(***************************************************************************)
(* Properties of fetch_reddit_video.                                       *)
(***************************************************************************)
\* a post that qualifies: flagged as video with a reference ending in .mp4,
\* or carrying an embedded playable fallback reference
Qualifies(post) ==
    \/ post.is_video /\ EndsWith(post.url, MP4)
    \/ post.media = "reddit_video"

\* the reference of a qualifying post
ReferenceOf(post) ==
    IF post.is_video /\ EndsWith(post.url, MP4) THEN post.url ELSE post.fallback

\* the qualifying references of a source's listing (none when the request failed)
QualifyingRefs(resp) ==
    IF resp.fault THEN {}
    ELSE { ReferenceOf(resp.posts[i]) :
             i \in { j \in 1..Len(resp.posts) : Qualifies(resp.posts[j]) } }

\* fetching or processing the source fails: the request fails, or a post
\* that is no .mp4 video holds media = None
SourceFails(resp) ==
    \/ resp.fault
    \/ \E i \in 1..Len(resp.posts) :
          /\ ~(resp.posts[i].is_video /\ EndsWith(resp.posts[i].url, MP4))
          /\ resp.posts[i].media = "null"

VideoFetched == handled = "fetch_reddit_video"
SourceCount == Len(SubredditsOf(io.category))

\* C8: fetch_reddit_video returns a reference of the first source, in the
\* order of the category, whose listing holds a qualifying post, and asks
\* no later source.
C8_FirstQualifyingSource ==
    VideoFetched =>
        LET good == { i \in 1..SourceCount : QualifyingRefs(io.video_resps[i]) # {} } IN
        good # {} =>
            LET first == CHOOSE i \in good : \A j \in good : i <= j IN
            /\ io.source = first
            /\ io.requests = first
            /\ io.result # None
            /\ io.result[1] \in QualifyingRefs(io.video_resps[first])

\* C9: a source that fails does not end fetch_reddit_video: the failure is
\* logged and the next source is asked; None is returned only after every
\* source of the category was asked and each failed or held no qualifying
\* post.
C9_FailureNeverAborts ==
    VideoFetched =>
        /\ io.requests <= SourceCount
        /\ \A i \in 1..io.requests :
              (SourceFails(io.video_resps[i]) /\ i < SourceCount) => io.requests > i
        /\ io.logged =
              Cardinality({ i \in 1..io.requests : SourceFails(io.video_resps[i]) })
        /\ io.result = None =>
              /\ io.requests = SourceCount
              /\ \A i \in 1..SourceCount :
                    \/ SourceFails(io.video_resps[i])
                    \/ QualifyingRefs(io.video_resps[i]) = {}
        /\ io.result # None =>
              /\ ~SourceFails(io.video_resps[io.source])
              /\ io.result[1] \in QualifyingRefs(io.video_resps[io.source])

\* the first source failed and the reference comes from the second
C9_Witness ==
    /\ VideoFetched
    /\ SourceCount = 2
    /\ SourceFails(io.video_resps[1])
    /\ io.source = 2
    /\ io.logged = 1


(***************************************************************************)
(* Properties of generate_custom_meme and of the texts.                    *)
(***************************************************************************)
CaptionCalled == io.fetcher = "generate_custom_meme"

\* the catalog has an entry for the category, letter case apart
InCatalog(category) ==
    \E k \in DOMAIN MEME_TEMPLATES : Lower(k) = Lower(category)

\* C11: for a category without catalog entry (letter case apart)
\* generate_custom_meme returns "Invalid category selected" and sends no
\* request; for a category with an entry it sends exactly one request.
C11_InvalidCategory ==
    CaptionCalled =>
        IF InCatalog(io.category)
        THEN io.requests = 1 /\ io.template_id # None
        ELSE io.requests = 0 /\ io.result = Some(INVALID_CATEGORY)

C11_Witness ==
    /\ CaptionCalled
    /\ ~InCatalog(io.category)
    /\ io.result = Some(INVALID_CATEGORY)

\* the first 50 characters of a text longer than that, else the text
FirstFifty(text) ==
    IF Len(text) > 50 THEN [i \in 1..50 |-> text[i]] ELSE text

\* C12: handle_top_text stores, and handle_bottom_text passes on, the first
\* 50 characters of a text longer than 50 characters and the text itself
\* otherwise; generate_custom_meme sends both texts as it was given them.
C12_Truncation ==
    /\ handled = "handle_top_text" =>
          user_data.top_text = Some(FirstFifty(event.text))
    /\ handled = "handle_bottom_text" =>
          /\ user_data.bottom_text = Some(FirstFifty(event.text))
          /\ CaptionCalled => io.bottom_text = FirstFifty(event.text)
    /\ (CaptionCalled /\ io.requests = 1) =>
          /\ io.text0 = io.top_text
          /\ io.text1 = io.bottom_text

\* a long bottom text was cut and sent
C12_Witness ==
    /\ Returned("handle_bottom_text")
    /\ event.text = LONG_TEXT
    /\ io.requests = 1
    /\ Len(io.text1) = 50

(***************************************************************************)
(* Properties of the faults that leave a callback.                         *)
(***************************************************************************)
Apologised ==
    /\ emitted # << >>
    /\ emitted[Len(emitted)] = ReplyText("error_occurred", << >>, << >>)

\* C13: after an error that left a callback the user has been sent the
\* generic apology, the user's dialog has ended, the session is cleared and
\* the runner still polls.
C13_FaultEndsDialog ==
    raised =>
        /\ Apologised
        /\ runner = "polling"
        /\ conv = "NONE"
        /\ user_data = EmptyUserData

(***************************************************************************)
(* Properties of the runner.                                               *)
(***************************************************************************)
\* C14: whenever the runner is not polling (the updater failed and the loop
\* sleeps) it comes to poll again with a new updater; this holds after
\* every failure, so the runner never stops on its own.
C14_Reconnects == (runner # "polling") ~> (runner = "polling")

\* the runner polls again after a failure
C14_Witness == runner = "polling" /\ handled = "restart"

(***************************************************************************)
(* Properties of the events no handler is registered for.                  *)
(***************************************************************************)
\* a free text where a button is awaited, a button where a text is awaited,
\* a button or a free text while no dialog is active
Unexpected(state, ev) ==
    \/ state \in {OPTION, CATEGORY} /\ ev.type = "text"
    \/ state \in {TOP_TEXT, BOTTOM_TEXT} /\ ev.type = "callback"
    \/ state = "NONE" /\ ev.type \in {"callback", "text"}

\* C15: an event of a type the current state does not await is ignored: the
\* state, the mode, the category and the texts stay as they are, no fetcher
\* is called and no message is sent.
C15_Step ==
    Unexpected(conv, event') =>
        /\ handled' = "none"
        /\ conv' = conv
        /\ user_data' = user_data
        /\ io'.fetcher = "none"
        /\ io'.requests = 0
        /\ emitted' = << >>
        /\ ~raised'
C15_UnexpectedIgnored == [][C15_Step]_vars

\* a free text arrived while a category button was awaited, with a session
\* that holds a mode
C15_Witness ==
    /\ handled = "none"
    /\ from = CATEGORY
    /\ conv = CATEGORY
    /\ event.type = "text"
    /\ user_data.mode # None

(***************************************************************************)
(* Properties of the session.                                              *)
(***************************************************************************)
ModeTokens == { EDIT, RANDOM, VIDEO }

\* C17: the mode in the session is unset or one of edit, random and video;
\* a payload that is no mode token is never recorded as the mode.
C17_ModeClosed ==
    user_data.mode = None \/ \E t \in ModeTokens : user_data.mode = Some(t)

\* C19: while a top or a bottom text is awaited the mode is edit and a
\* category is recorded, and while a bottom text is awaited a top text is
\* recorded too; so handle_bottom_text finds the category and the top text,
\* and handle_category finds the mode, whenever they run.
C19_SessionComplete ==
    /\ conv \in {TOP_TEXT, BOTTOM_TEXT} =>
          /\ user_data.mode = Some(EDIT)
          /\ user_data.category # None
    /\ conv = BOTTOM_TEXT => user_data.top_text # None
    /\ conv = CATEGORY => user_data.mode # None
    /\ handled = "handle_bottom_text" => io.fetcher = "generate_custom_meme"

\* a bottom text is still awaited after a callback raised
C19_Witness ==
    /\ conv = BOTTOM_TEXT
    /\ raised
    /\ user_data.top_text # None

(***************************************************************************)
(* Properties of fetch_random_reddit_image_meme.                           *)
(***************************************************************************)
ImageFetched == io.fetcher = "fetch_random_reddit_image_meme"

\* the reference ends in .jpg, .jpeg, .png or .gif, letter case apart
StaticImage(url) ==
    LET u == Lower(url)
        n == Len(u)
        Tail4 == IF n >= 4 THEN SubSeq(u, n - 3, n) ELSE << >>
        Tail5 == IF n >= 5 THEN SubSeq(u, n - 4, n) ELSE << >>
    IN \/ Tail4 \in { << ".", "j", "p", "g" >>, << ".", "p", "n", "g" >>,
                      << ".", "g", "i", "f" >> }
       \/ Tail5 = << ".", "j", "p", "e", "g" >>

\* the references of the listing's static images
StaticImages(resp) ==
    { resp.posts[i].url : i \in { j \in 1..Len(resp.posts) :
                                     StaticImage(resp.posts[j].url) } }

\* C18: fetch_random_reddit_image_meme returns a reference of one of the
\* listing's posts whose reference ends in .jpg, .jpeg, .png or .gif (letter
\* case apart) when there is such a post, and nothing when there is none or
\* the request fails; it never returns another post's reference.
C18_ImageFilter ==
    ImageFetched =>
        IF io.image_resp.fault \/ StaticImages(io.image_resp) = {}
        THEN io.result = None
        ELSE /\ io.result # None
             /\ io.result[1] \in StaticImages(io.image_resp)

\* an upper-case image was returned from a listing that also holds a post
\* that is no static image
C18_Witness ==
    /\ ImageFetched
    /\ io.result = Some(<< "b", ".", "P", "N", "G" >>)
    /\ \E i \in 1..Len(io.image_resp.posts) :
          ~StaticImage(io.image_resp.posts[i].url)

(***************************************************************************)
(* Properties of the update queue.                                         *)
(***************************************************************************)
\* no update is processed in this step
NothingProcessed ==
    UNCHANGED << conv, user_data, event, from, handled, raised, emitted, io >>

\* C16: while the fetcher called by handle_category has not returned, no
\* other update of the user is processed (a /cancel received meanwhile
\* stays in the queue until handle_category has ended and its state is in
\* place), and updates are processed in the order they arrived in.
C16_Step ==
    /\ pending # None =>
          \/ NothingProcessed /\ pending' = pending
          \/ /\ pending' = None
             /\ event' = pending[1]
             /\ handled' = "handle_category"
             /\ inbox' = inbox
    /\ inbox' # inbox =>
          \/ /\ Len(inbox') = Len(inbox) + 1
             /\ SubSeq(inbox', 1, Len(inbox)) = inbox
             /\ NothingProcessed
          \/ /\ inbox # << >>
             /\ inbox' = Tail(inbox)
             /\ event' = Head(inbox) \/ pending' = Some(Head(inbox))
C16_NoMidFetchCancel == [][C16_Step]_vars

\* handle_category has ended after its fetch while a /cancel waits in the queue
C16_Witness ==
    /\ pending = None
    /\ handled = "handle_category"
    /\ io.requests >= 1
    /\ inbox # << >>
    /\ Head(inbox) = Command("cancel")

(***************************************************************************)
(* Properties of two runs that differ in what earlier dialogs left.        *)
(***************************************************************************)
\* C20: a run whose session holds values of earlier dialogs and the run of
\* a new user, given the same events, transport faults and answers of the
\* content services, are in the same state of the dialog, have made the
\* same transport calls and have called the same fetcher with the same
\* arguments.
C20_SameAsFresh ==
    /\ twin.conv = conv
    /\ twin.handled = handled
    /\ twin.raised = raised
    /\ twin.emitted = emitted
    /\ twin.io = io

\* a dialog that fetched a meme has ended in both runs, whose sessions
\* still differ
C20_Witness ==
    /\ Returned("handle_category")
    /\ conv = "NONE"
    /\ io.requests >= 1
    /\ twin.user_data # user_data

=============================================================================
